---- MODULE Spec2Model ----
(***************************************************************************)
(* Model of dav-backup (src/index.js): one run of the backup controller.   *)
(* The remote WebDAV store, the spawned producer processes, the PUT        *)
(* request streams and the timers are the environment; every action is one *)
(* callback of the program run to its next suspension point (yield).       *)
(***************************************************************************)
EXTENDS Integers, Sequences, FiniteSets, TLC

(* ------------------------------ bounds -------------------------------- *)

\* largest configured --retries value explored (the smallest is -1)
MaxRetries == 2
\* largest number of segments of --davDir explored
MaxDepth == 2

(* ------------------------- program constants -------------------------- *)

\* yargs default of daysToKeep; any finite window compares below it
Infinity == 1000000
\* the instant moment() returns while pruning, in days
Now == 10

Stages == <<"tar", "mysql", "mongo">>
StageSet == {"tar", "mysql", "mongo"}

NoFile == [kind |-> "none", stamp |-> 0]

(* ------------------- characters and backup filenames ------------------ *)

Digits == {"0", "1", "2", "3", "4", "5", "6", "7", "8", "9"}

BackupChars == <<"b", "a", "c", "k", "u", "p", "-">>
MysqlChars == <<"m", "y", "s", "q", "l">>
MongoChars == <<"m", "o", "n", "g", "o">>
TgzExt == <<".", "t", "g", "z">>
TarExt == <<".", "t", "a", "r">>
SqlExt == <<".", "s", "q", "l">>
GzExt == <<".", "g", "z">>
ZipExt == <<".", "z", "i", "p">>
DateChars == <<"2", "0", "2", "4", "-", "0", "1", "-", "0", "1">>
TimeChars == <<"0", "0", "-", "0", "0", "-", "0", "0", "-", "0", "0", "0">>
\* the run name of this configuration, and the one of a neighbouring job
RunName == <<"n", "1">>
OtherName == <<"n", "1", "2">>

HasPrefix(s, p) == Len(s) >= Len(p) /\ SubSeq(s, 1, Len(p)) = p
HasSuffix(s, p) == Len(s) >= Len(p) /\ SubSeq(s, Len(s) - Len(p) + 1, Len(s)) = p

AllDigits(s) == \A n \in 1..Len(s) : s[n] \in Digits

\* (\d{4}-\d{2}-\d{2})
DateGroup(s) ==
    /\ Len(s) = 10
    /\ AllDigits(SubSeq(s, 1, 4)) /\ s[5] = "-"
    /\ AllDigits(SubSeq(s, 6, 7)) /\ s[8] = "-"
    /\ AllDigits(SubSeq(s, 9, 10))

\* (\d{2}-\d{2}-\d{2}-\d{3})
TimeGroup(s) ==
    /\ Len(s) = 12
    /\ AllDigits(SubSeq(s, 1, 2)) /\ s[3] = "-"
    /\ AllDigits(SubSeq(s, 4, 5)) /\ s[6] = "-"
    /\ AllDigits(SubSeq(s, 7, 8)) /\ s[9] = "-"
    /\ AllDigits(SubSeq(s, 10, 12))

\* (?:\.tgz|\.tar(?:\.gz|)|\.sql(?:\.gz|))
ExtGroup == {TgzExt, TarExt, TarExt \o GzExt, SqlExt, SqlExt \o GzExt}

KindGroupMysqlOnly(s) ==
    \/ s = <<>>
    \/ /\ HasPrefix(s, MysqlChars \o <<"-">>)
       /\ Len(s) >= Len(MysqlChars) + 3
       /\ s[Len(s)] = "_"

\* (?:(mysql|mongo)-.+?_|)
KindGroup(s) ==
    \/ s = <<>>
    \/ \E kind \in {MysqlChars, MongoChars} :
          /\ HasPrefix(s, kind \o <<"-">>)
          /\ Len(s) >= Len(kind) + 3
          /\ s[Len(s)] = "_"

\* BACKUP_FILENAME_REGEXP.test(basename) for the regexp built from `name`
BACKUP_FILENAME_REGEXP(name, basename) ==
    LET head == BackupChars \o name \o <<"_">>
    IN  /\ HasPrefix(basename, head)
        /\ \E ext \in ExtGroup :
              LET cut == Len(basename) - Len(ext) - 23
              IN  /\ HasSuffix(basename, ext)
                  /\ cut >= Len(head)
                  /\ KindGroup(SubSeq(basename, Len(head) + 1, cut))
                  /\ DateGroup(SubSeq(basename, cut + 1, cut + 10))
                  /\ basename[cut + 11] = "_"
                  /\ TimeGroup(SubSeq(basename, cut + 12, cut + 23))

\* the capture groups of BACKUP_FILENAME_REGEXP on basename: group 1 is
\* undefined (here the empty string) when the empty alternative matched
RegexpGroups(name, basename) ==
    IF ~BACKUP_FILENAME_REGEXP(name, basename)
    THEN [matched |-> FALSE, kind |-> <<>>, date |-> <<>>, time |-> <<>>]
    ELSE LET head == BackupChars \o name \o <<"_">>
             ext == CHOOSE e \in ExtGroup :
                       /\ HasSuffix(basename, e)
                       /\ Len(basename) - Len(e) - 23 >= Len(head)
             cut == Len(basename) - Len(ext) - 23
         IN  [matched |-> TRUE,
              kind |-> IF cut = Len(head) THEN <<>>
                       ELSE SubSeq(basename, Len(head) + 1, Len(head) + 5),
              date |-> SubSeq(basename, cut + 1, cut + 10),
              time |-> SubSeq(basename, cut + 12, cut + 23)]

DigitChars == <<"0", "1", "2", "3", "4", "5", "6", "7", "8", "9">>

RECURSIVE Power10(_)
Power10(w) == IF w = 0 THEN 1 ELSE 10 * Power10(w - 1)

\* moment's YYYY, MM, DD, HH, mm, ss, SSS tokens: n in `width` digits, zero padded
Padded(n, width) ==
    [j \in 1..width |-> DigitChars[((n \div Power10(width - j)) % 10) + 1]]

\* moment().format('YYYY-MM-DD_HH-mm-ss-SSS')
FormatMoment(m) ==
    Padded(m.year, 4) \o <<"-">> \o Padded(m.month, 2) \o <<"-">> \o Padded(m.day, 2)
        \o <<"_">> \o Padded(m.hour, 2) \o <<"-">> \o Padded(m.minute, 2) \o <<"-">>
        \o Padded(m.second, 2) \o <<"-">> \o Padded(m.millisecond, 3)

\* `backup-${name}_` + moment().format(...) + '.tgz'
BackupTarFilename(name, m) ==
    BackupChars \o name \o <<"_">> \o FormatMoment(m) \o TgzExt

\* `backup-${name}_mysql-${mysqlDb}_` + moment().format(...) + '.sql.gz'
BackupMysqlFilename(name, mysqlDb, m) ==
    BackupChars \o name \o <<"_">> \o MysqlChars \o <<"-">> \o mysqlDb \o <<"_">>
        \o FormatMoment(m) \o SqlExt \o GzExt

\* `backup-${name}_mongo-${mongoDb}_` + moment().format(...) + '.sql.gz'
BackupMongoFilename(name, mongoDb, m) ==
    BackupChars \o name \o <<"_">> \o MongoChars \o <<"-">> \o mongoDb \o <<"_">>
        \o FormatMoment(m) \o SqlExt \o GzExt

(* --------------------------- the remote store ------------------------- *)

DateChars2 == <<"2", "0", "2", "4", "-", "0", "1", "-", "0", "2">>
DateChars3 == <<"2", "0", "2", "4", "-", "0", "1", "-", "0", "3">>
Stamp(date) == date \o <<"_">> \o TimeChars

\* basenames found on the remote store
TarName(date) == BackupChars \o RunName \o <<"_">> \o Stamp(date) \o TgzExt
MysqlName(date) ==
    BackupChars \o RunName \o <<"_">> \o MysqlChars \o <<"-", "d", "_">> \o Stamp(date)
        \o SqlExt \o GzExt
OtherRunName == BackupChars \o OtherName \o <<"_">> \o Stamp(DateChars) \o TgzExt
NoDbName ==
    BackupChars \o RunName \o <<"_">> \o MongoChars \o <<"-", "_">> \o Stamp(DateChars)
        \o SqlExt \o GzExt
ZipName == BackupChars \o RunName \o <<"_">> \o Stamp(DateChars) \o ZipExt
ShortName == BackupChars \o RunName \o <<"_">> \o SubSeq(Stamp(DateChars), 1, 22) \o TarExt

Entry(dir, type, basename, lastmod) ==
    [type |-> type, lastmod |-> lastmod, basename |-> basename,
     filename |-> [dir |-> dir, base |-> basename]]

\* the listing of a target directory that already holds backups
UsedListing(dir) ==
    << Entry(dir, "file", OtherRunName, Now - 3),
       Entry(dir, "file", TarName(DateChars), Now - 3),
       Entry(dir, "file", ZipName, Now - 3),
       Entry(dir, "directory", TarName(DateChars2), Now - 3),
       Entry(dir, "file", MysqlName(DateChars2), Now - 2),
       Entry(dir, "file", NoDbName, Now - 3),
       Entry(dir, "file", MysqlName(DateChars), Now - 3),
       Entry(dir, "file", ShortName, Now - 3),
       Entry(dir, "file", TarName(DateChars3), Now - 1) >>

\* the listing of a directory above the target: its child and an old backup
ParentListing(dir) ==
    << Entry(dir, "directory", <<"d">>, Now - 3),
       Entry(dir, "file", TarName(DateChars), Now - 3) >>

PathOf(n) == [m \in 1..n |-> m]

(* ------------------------------- state -------------------------------- *)

VARIABLES
    options,        \* the parsed options of the run
    remoteDirs,     \* directories existing on the remote store
    remoteFiles,    \* remote directory -> its listing
    watchdog,       \* the TIMEOUT timer: "unarmed" or "armed"
    pc,             \* where the controller is suspended
    i,              \* bootstrap loop counter
    davDirContents, \* last successful listing, or undefined
    k,              \* index of the listing entry whose delete is awaited
    cur,            \* index in Stages of the job being backed up
    retriesCount,   \* retriesCount of the running backup() call
    att,            \* the attempt whose promise the controller awaits
    staleReqs,      \* PUT requests of settled attempts that are still open
    staleProcs,     \* producers of settled attempts that are still running: how
                    \* many of rejected attempts, and the stages of resolved ones
    exitCode,       \* process exit code, -1 while running
    exitReason,     \* which process.exit ended the run
    probes,         \* history: paths listed, in order, each with the status answered
    created,        \* history: paths for which createDirectory was issued
    pruned,         \* history: files for which a retention delete was issued
    pruneFailed,    \* history: a retention delete failed
    attempts,       \* history: stage -> number of backupFn calls
    stageResult,    \* history: stage -> "idle", "running", "ok", "failed"
    lastOutcome,    \* history: how the latest step settled the awaited attempt
    roundTrip       \* a filename being generated and matched (filename check only)

vars ==
    << options, remoteDirs, remoteFiles, watchdog, pc, i, davDirContents, k, cur,
       retriesCount, att, staleReqs, staleProcs, exitCode, exitReason, probes, created,
       pruned, pruneFailed, attempts, stageResult, lastOutcome, roundTrip >>

controlVars == << pc, exitCode, exitReason >>
bootVars == << i, davDirContents, probes, created, remoteDirs, remoteFiles >>
pruneVars == << k, pruned, pruneFailed >>
jobVars == << cur, retriesCount, att, staleReqs, staleProcs, attempts, stageResult >>

NoAttempt == [promise |-> "none", proc |-> "none", req |-> "none", backupFilename |-> NoFile]
NoPath == [dir |-> <<>>, base |-> NoFile]
\* by: the event that settled it; status: the HTTP status the event carried;
\* result: "ok", "file" (failed, filename carried), "bare" (failed, no filename),
\* "fatal"; file: the attempt's filename; cleanup: the cleanup delete issued
\* proc: the producer's state at that moment
NoOutcome ==
    [by |-> "none", status |-> 0, result |-> "none", file |-> NoFile, cleanup |-> NoPath,
     proc |-> "none"]
Outcome(a, by, status, result, cleanup) ==
    [by |-> by, status |-> status, result |-> result, file |-> a.backupFilename,
     cleanup |-> cleanup, proc |-> a.proc]
Undefined == [defined |-> FALSE, entries |-> <<>>]
NoMoment ==
    [year |-> 0, month |-> 0, day |-> 0, hour |-> 0, minute |-> 0, second |-> 0,
     millisecond |-> 0]
NoMatch == [matched |-> FALSE, kind |-> <<>>, date |-> <<>>, time |-> <<>>]
NoRoundTrip ==
    [phase |-> "none", name |-> <<>>, db |-> <<>>, moment |-> NoMoment, kind |-> "none",
     backupFilename |-> <<>>, matcher |-> <<>>, groups |-> NoMatch]

DaysToKeepValues == {0, 2, Infinity}

\* every configuration the options can hold within the bounds
OptionValues ==
    [ dirs : {<<>>, <<"/data">>},
      mysqlDb : {"", "db"},
      mongoDb : {"", "db"},
      retries : -1..MaxRetries,
      daysToKeep : DaysToKeepValues,
      name : {RunName},
      davDirSegments : {PathOf(n) : n \in 0..MaxDepth} ]

\* the remote store of a first run onto an existing parent: one old backup above
PlainRemote(o) ==
    /\ o.davDirSegments = PathOf(1)
    /\ o.daysToKeep = 2

\* one directory job and one database job, no retry
PlainJobs(o) ==
    /\ o.dirs # <<>>
    /\ o.mysqlDb = ""
    /\ o.mongoDb # ""
    /\ o.retries = 0

\* Either the jobs and the retry count vary, over a plain remote store and
\* retention window, or the remote store, the path and the window vary, over
\* plain jobs.
ControllerInit ==
    /\ options \in OptionValues
    /\ \/ /\ PlainRemote(options)
          /\ remoteDirs = {PathOf(0), PathOf(1)}
          /\ remoteFiles = [ d \in remoteDirs |->
                               IF d # options.davDirSegments THEN ParentListing(d)
                               ELSE UsedListing(d) ]
       \/ /\ PlainJobs(options)
          /\ \E e \in -1..Len(options.davDirSegments) :
                remoteDirs = {PathOf(m) : m \in 0..e}
          /\ \E used \in BOOLEAN :
                remoteFiles = [ d \in remoteDirs |->
                                  IF d # options.davDirSegments THEN ParentListing(d)
                                  ELSE IF used THEN UsedListing(d) ELSE <<>> ]
    /\ watchdog = "unarmed"
    /\ pc = "start"
    /\ i = 0
    /\ davDirContents = Undefined
    /\ k = 0
    /\ cur = 0
    /\ retriesCount = 0
    /\ att = NoAttempt
    /\ staleReqs = 0
    /\ staleProcs = [rejected |-> 0, resolved |-> {}]
    /\ exitCode = -1
    /\ exitReason = "none"
    /\ probes = <<>>
    /\ created = {}
    /\ pruned = {}
    /\ pruneFailed = FALSE
    /\ attempts = [s \in StageSet |-> 0]
    /\ stageResult = [s \in StageSet |-> "idle"]
    /\ lastOutcome = NoOutcome

Init == ControllerInit /\ roundTrip = NoRoundTrip

\* process.exit(code)
Exit(code, reason) ==
    /\ pc' = "exited"
    /\ exitCode' = code
    /\ exitReason' = reason

(* ---------------------- the retry/cleanup orchestrator ---------------- *)

AlwaysConfigured(n) == TRUE

\* if (dirs && dirs.length) / if (mysqlDb) / if (mongoDb)
Configured(n) ==
    CASE Stages[n] = "tar" -> Len(options.dirs) > 0
      [] Stages[n] = "mysql" -> options.mysqlDb # ""
      [] Stages[n] = "mongo" -> options.mongoDb # ""

NoTargetCheck == FALSE

TimerNotArmed == "unarmed"

\* setTimeout(() => { ...; process.exit(1); }, TIMEOUT)
ArmTimer == "armed"

\* if (!(dirs && dirs.length) && !mysqlDb && !mongoDb)
NoTargets == \A n \in 1..Len(Stages) : ~Configured(n)

\* the promise executor of backupTar / backupMysql / backupMongo: the filename is
\* stamped with the time of the call, the producer is spawned, the PUT is opened
NewAttempt(stage, n) ==
    [promise |-> "pending", proc |-> "running", req |-> "open",
     backupFilename |-> [kind |-> stage, stamp |-> n]]

\* the three `if (target) yield* backup(fn)` blocks from block `from` on, then the
\* .then(() => process.exit(0)) of co; `res`, `sr`, `sp` are the new values of
\* stageResult, staleReqs and staleProcs
RunStages(from, res, sr, sp) ==
    LET rest == {n \in from..Len(Stages) : Configured(n)}
    IN  IF rest = {}
        THEN /\ Exit(0, "done")
             /\ stageResult' = res
             /\ att' = NoAttempt
             /\ staleReqs' = sr
             /\ staleProcs' = sp
             /\ UNCHANGED << cur, retriesCount, attempts >>
        ELSE LET n == CHOOSE m \in rest : \A o \in rest : m <= o
                 s == Stages[n]
             IN  /\ pc' = "upload"
                 /\ UNCHANGED << exitCode, exitReason >>
                 /\ cur' = n
                 /\ retriesCount' = 0
                 /\ att' = NewAttempt(s, attempts[s] + 1)
                 /\ attempts' = [attempts EXCEPT ![s] = @ + 1]
                 /\ stageResult' = [res EXCEPT ![s] = "running"]
                 /\ staleReqs' = sr
                 /\ staleProcs' = sp

\* a give-up that rethrows instead of returning
GiveUpThrows(res, sr, sp) ==
    /\ Exit(1, "unhandled")
    /\ stageResult' = res
    /\ att' = NoAttempt
    /\ staleReqs' = sr
    /\ staleProcs' = sp
    /\ UNCHANGED << cur, retriesCount, attempts >>

\* backup() falls off the end of its catch block when no retry is left: the
\* generator returns normally and the controller goes on with the next block
GiveUp(res, sr, sp) == RunStages(cur + 1, res, sr, sp)

NeverRetry(count, retries) == FALSE

ShouldRetryOffByOne(count, retries) == count <= retries

\* if (retriesCount < retries)
ShouldRetry(count, retries) == count < retries

\* the tail of the catch block of backup(), after the cleanup delete
RetryOrGiveUp(sr, sp) ==
    IF ShouldRetry(retriesCount, options.retries)
    THEN /\ retriesCount' = retriesCount + 1
         /\ pc' = "delay"
         /\ att' = NoAttempt
         /\ staleReqs' = sr
         /\ staleProcs' = sp
         /\ UNCHANGED << exitCode, exitReason, cur, attempts, stageResult >>
    ELSE GiveUp([stageResult EXCEPT ![Stages[cur]] = "failed"], sr, sp)

NeverHasBackupFilename(err) == FALSE

\* const { backupFilename } = err; if (backupFilename)
HasBackupFilename(err) == err.backupFilename # NoFile

\* `${davDir}/${err.backupFilename}`
BrokenFilePath(err) == [dir |-> options.davDirSegments, base |-> err.backupFilename]

StaleAfter(count, state, live) == count + (IF state = live THEN 1 ELSE 0)

\* nothing kills the producer of a settled attempt: it runs on, and its 'exit'
\* handler still holds the resolve and reject of the settled promise
StaleProcsAfter(a, settled) ==
    IF a.proc # "running"
    THEN staleProcs
    ELSE IF settled = "resolved"
         THEN [staleProcs EXCEPT !.resolved = @ \cup {a.backupFilename.kind}]
         ELSE [staleProcs EXCEPT !.rejected = @ + 1]

\* yield backupFn(...) returns: backup() returns and the controller goes on
Resolve(a, by, status) ==
    /\ lastOutcome' = Outcome(a, by, status, "ok", NoPath)
    /\ RunStages(cur + 1, [stageResult EXCEPT ![Stages[cur]] = "ok"],
                 StaleAfter(staleReqs, a.req, "open"),
                 StaleProcsAfter(a, "resolved"))

\* yield backupFn(...) throws err: the catch block of backup() up to its next yield
Reject(a, err, by, status) ==
    LET sr == StaleAfter(staleReqs, a.req, "open")
        sp == StaleProcsAfter(a, "rejected")
    IN  IF HasBackupFilename(err)
           THEN /\ pc' = "cleanup"
                /\ lastOutcome' = Outcome(a, by, status, "file", BrokenFilePath(err))
                /\ att' = NoAttempt
                /\ staleReqs' = sr
                /\ staleProcs' = sp
                /\ UNCHANGED << exitCode, exitReason, cur, retriesCount, attempts,
                                stageResult >>
           ELSE /\ lastOutcome' =
                      Outcome(a, by, status,
                              IF err.backupFilename # NoFile THEN "file" ELSE "bare", NoPath)
                /\ RetryOrGiveUp(sr, sp)

(* --------------------------- bootstrap and prune ---------------------- *)

\* '/' + davDirSegments.slice(0, i).join('/')
SegmentedDavDir(j) == SubSeq(options.davDirSegments, 1, j)

\* what the remote store may answer to a listing of `path`
ListAnswers(path) == (IF path \in remoteDirs THEN {200} ELSE {404}) \cup {401, 500}

CreateOnAnyFailure(status) == "create"

\* the catch block of the bootstrap loop
ListingFailure(status) ==
    IF status = 404 THEN "create"
    ELSE IF status = 401 THEN "exit"
    ELSE "throw"

\* if (daysToKeep > 0 && daysToKeep < Infinity)
ShouldPrune(daysToKeep) == daysToKeep > 0 /\ daysToKeep < Infinity

\* moment().subtract(moment.duration(daysToKeep, 'days').asMilliseconds(), 'ms')
ObsoleteMoment(daysToKeep) == Now - daysToKeep

IsSameOrBefore(lastmod, obsoleteMoment) == lastmod <= obsoleteMoment

\* moment(lastmod).isBefore(obsoleteMoment)
IsBefore(lastmod, obsoleteMoment) == lastmod < obsoleteMoment

\* the condition of the prune loop body
ShouldDelete(entry) ==
    /\ entry.type = "file"
    /\ BACKUP_FILENAME_REGEXP(options.name, entry.basename)
    /\ IsBefore(entry.lastmod, ObsoleteMoment(options.daysToKeep))

\* the prune loop from entry `from` on, up to its next yield, then the stages
PruneFrom(contents, from) ==
    LET hits == {n \in from..Len(contents.entries) : ShouldDelete(contents.entries[n])}
    IN  IF hits = {}
        THEN /\ UNCHANGED pruneVars
             /\ RunStages(1, stageResult, staleReqs, staleProcs)
        ELSE LET n == CHOOSE m \in hits : \A o \in hits : m <= o
             IN  /\ pc' = "prune"
                 /\ k' = n
                 /\ pruned' = pruned \cup {contents.entries[n].filename}
                 /\ UNCHANGED << exitCode, exitReason, pruneFailed >>
                 /\ UNCHANGED jobVars

\* the code after the bootstrap loop, up to its next yield; iterating an
\* undefined davDirContents throws a TypeError into the catch of co
AfterBootstrap(contents) ==
    IF ShouldPrune(options.daysToKeep)
    THEN IF contents.defined
         THEN PruneFrom(contents, 1)
         ELSE /\ Exit(1, "unhandled")
              /\ UNCHANGED pruneVars
              /\ UNCHANGED jobVars
    ELSE /\ UNCHANGED pruneVars
         /\ RunStages(1, stageResult, staleReqs, staleProcs)

\* a listing is issued: its status is 0 until the remote store answers
Probe(path) == [path |-> path, status |-> 0]
Answered(pr, status) == [pr EXCEPT ![Len(pr)].status = status]

LoopExcludesFullDepth(j) == j < Len(options.davDirSegments)

\* while (i <= davDirSegments.length)
LoopContinues(j) == j <= Len(options.davDirSegments)

\* i++ and the loop condition: the next listing, or what follows the loop;
\* `pr` is the new value of probes
NextDepth(contents, pr) ==
    /\ i' = i + 1
    /\ IF LoopContinues(i + 1)
       THEN /\ pc' = "list"
            /\ probes' = Append(pr, Probe(SegmentedDavDir(i + 1)))
            /\ UNCHANGED << exitCode, exitReason >>
            /\ UNCHANGED pruneVars
            /\ UNCHANGED jobVars
       ELSE /\ probes' = pr
            /\ AfterBootstrap(contents)

(* -------------------------------- actions ----------------------------- *)

\* module.exports up to the first yield of the generator
Start ==
    /\ UNCHANGED roundTrip
    /\ pc = "start"
    /\ watchdog' = ArmTimer
    /\ IF NoTargets
       THEN /\ Exit(1, "notargets")
            /\ UNCHANGED << i, probes >>
       ELSE /\ pc' = "list"
            /\ i' = 0
            /\ probes' = Append(probes, Probe(SegmentedDavDir(0)))
            /\ UNCHANGED << exitCode, exitReason >>
    /\ UNCHANGED << options, remoteDirs, remoteFiles, davDirContents, created >>
    /\ UNCHANGED pruneVars
    /\ UNCHANGED jobVars
    /\ lastOutcome' = NoOutcome

\* dav.getDirectoryContents(segmentedDavDir) settles
ListReturns ==
    /\ UNCHANGED roundTrip
    /\ pc = "list"
    /\ \E status \in ListAnswers(SegmentedDavDir(i)) :
          IF status = 200
          THEN /\ davDirContents' = [defined |-> TRUE,
                                     entries |-> remoteFiles[SegmentedDavDir(i)]]
               /\ NextDepth(davDirContents', Answered(probes, status))
               /\ UNCHANGED << created, remoteDirs, remoteFiles >>
          ELSE CASE ListingFailure(status) = "create" ->
                      /\ pc' = "mkdir"
                      /\ created' = created \cup {SegmentedDavDir(i)}
                      /\ probes' = Answered(probes, status)
                      /\ UNCHANGED << exitCode, exitReason, i, davDirContents,
                                      remoteDirs, remoteFiles >>
                      /\ UNCHANGED pruneVars
                      /\ UNCHANGED jobVars
                 [] ListingFailure(status) = "exit" ->
                      /\ Exit(1, "credentials")
                      /\ probes' = Answered(probes, status)
                      /\ UNCHANGED << i, davDirContents, created, remoteDirs, remoteFiles >>
                      /\ UNCHANGED pruneVars
                      /\ UNCHANGED jobVars
                 [] ListingFailure(status) = "throw" ->
                      /\ Exit(1, "unhandled")
                      /\ probes' = Answered(probes, status)
                      /\ UNCHANGED << i, davDirContents, created, remoteDirs, remoteFiles >>
                      /\ UNCHANGED pruneVars
                      /\ UNCHANGED jobVars
    /\ UNCHANGED << options, watchdog >>
    /\ lastOutcome' = NoOutcome

\* dav.createDirectory(segmentedDavDir) settles
MkdirReturns ==
    /\ UNCHANGED roundTrip
    /\ pc = "mkdir"
    /\ \E ok \in BOOLEAN :
          IF ok
          THEN /\ remoteDirs' = remoteDirs \cup {SegmentedDavDir(i)}
               /\ remoteFiles' = [d \in remoteDirs' |->
                                    IF d \in remoteDirs THEN remoteFiles[d] ELSE <<>>]
               /\ NextDepth(davDirContents, probes)
               /\ UNCHANGED << davDirContents, created >>
          ELSE /\ Exit(1, "unhandled")
               /\ UNCHANGED bootVars
               /\ UNCHANGED pruneVars
               /\ UNCHANGED jobVars
    /\ UNCHANGED << options, watchdog >>
    /\ lastOutcome' = NoOutcome

\* dav.deleteFile(filePath) of the prune loop settles
PruneDeleteReturns ==
    /\ UNCHANGED roundTrip
    /\ pc = "prune"
    /\ \E ok \in BOOLEAN :
          IF ok
          THEN /\ remoteFiles' =
                    LET f == davDirContents.entries[k].filename
                    IN  [remoteFiles EXCEPT
                           ![f.dir] = SelectSeq(@, LAMBDA e : e.filename # f)]
               /\ PruneFrom(davDirContents, k + 1)
          ELSE /\ pruneFailed' = TRUE
               /\ Exit(1, "unhandled")
               /\ UNCHANGED << k, pruned, remoteFiles >>
               /\ UNCHANGED jobVars
    /\ UNCHANGED << options, watchdog, i, davDirContents, probes, created, remoteDirs >>
    /\ lastOutcome' = NoOutcome

(* ------------------------- producers and uploads ---------------------- *)

\* what a producer's 'exit' event carries: an exit code, or null when killed
ExitEvents == {[killed |-> FALSE, code |-> c] : c \in 0..2} \cup {[killed |-> TRUE, code |-> 0]}

\* got.stream emits 'response' for 2xx statuses only (201 created, 204 when the
\* PUT overwrote a file); every other status arrives as an HTTPError carrying
\* statusCode on 'error', as do transport errors and the request timeout, which
\* carry none. The handler at lines 193-200 tests err.statusCode for that reason.
ResponseStatuses == {201, 204}
\* the errors of the 'error' event
RequestErrors ==
    {[kind |-> "http", statusCode |-> c, backupFilename |-> NoFile] : c \in {500, 507}}
        \cup {[kind |-> "transport", statusCode |-> 0, backupFilename |-> NoFile]}

\* backupTar: if (code > 1); backupMysql, backupMongo: if (code)
ExitFails(stage, ev) ==
    IF stage = "tar" THEN ~ev.killed /\ ev.code > 1 ELSE ~ev.killed /\ ev.code # 0

AnyStatusIsCreated(statusCode) == statusCode >= 200 /\ statusCode < 300

\* if (statusCode === 201)
IsCreated(statusCode) == statusCode = 201

NeverInsufficientStorage(err) == FALSE

\* if (err.statusCode === 507)
IsInsufficientStorage(err) == err.kind = "http" /\ err.statusCode = 507

Uploading == pc = "upload" /\ att.promise = "pending"

\* <producer>.on('exit', (code, _signal) => ...) of the awaited attempt
ProcExit ==
    /\ UNCHANGED roundTrip
    /\ Uploading
    /\ att.proc = "running"
    /\ \E ev \in ExitEvents :
          LET a == [att EXCEPT !.proc = "exited"]
          IN  IF ExitFails(Stages[cur], ev)
              THEN Reject(a, [kind |-> "exit", statusCode |-> 0,
                              backupFilename |-> att.backupFilename], "exit", ev.code)
              ELSE /\ att' = a
                   /\ UNCHANGED << cur, retriesCount, staleReqs, staleProcs, attempts,
                                   stageResult >>
                   /\ UNCHANGED controlVars
                   /\ lastOutcome' = NoOutcome
    /\ UNCHANGED << options, watchdog >>
    /\ UNCHANGED bootVars
    /\ UNCHANGED pruneVars

\* <producer>.on('error', reject) of the awaited attempt: the spawn failed
ProcError ==
    /\ UNCHANGED roundTrip
    /\ Uploading
    /\ att.proc = "running"
    /\ Reject([att EXCEPT !.proc = "exited"],
              [kind |-> "spawn", statusCode |-> 0, backupFilename |-> NoFile], "spawn", 0)
    /\ UNCHANGED << options, watchdog >>
    /\ UNCHANGED bootVars
    /\ UNCHANGED pruneVars

\* putRequestStream.on('response', ...) of the awaited attempt
Response ==
    /\ UNCHANGED roundTrip
    /\ Uploading
    /\ att.req = "open"
    /\ \E statusCode \in ResponseStatuses :
          LET a == [att EXCEPT !.req = "closed"]
          IN  IF IsCreated(statusCode)
              THEN Resolve(a, "response", statusCode)
              ELSE Reject(a, [kind |-> "upload", statusCode |-> statusCode,
                              backupFilename |-> att.backupFilename],
                          "response", statusCode)
    /\ UNCHANGED << options, watchdog >>
    /\ UNCHANGED bootVars
    /\ UNCHANGED pruneVars

\* putRequestStream.on('error', ...) of the awaited attempt
ReqError ==
    /\ UNCHANGED roundTrip
    /\ Uploading
    /\ att.req = "open"
    /\ \E err \in RequestErrors :
          IF IsInsufficientStorage(err)
          THEN /\ Exit(1, "nostorage")
               /\ lastOutcome' = Outcome(att, "error", err.statusCode, "fatal", NoPath)
               /\ UNCHANGED jobVars
          ELSE Reject([att EXCEPT !.req = "closed"], err, "error", err.statusCode)
    /\ UNCHANGED << options, watchdog >>
    /\ UNCHANGED bootVars
    /\ UNCHANGED pruneVars

\* the 'response' event, or an 'error' event other than 507, of the PUT request
\* of an attempt that has already been rejected: resolve and reject do nothing
StaleReqEnds ==
    /\ UNCHANGED roundTrip
    /\ pc # "exited"
    /\ staleReqs > 0
    /\ staleReqs' = staleReqs - 1
    /\ UNCHANGED << options, watchdog, cur, retriesCount, att, staleProcs, attempts,
                    stageResult >>
    /\ UNCHANGED controlVars
    /\ UNCHANGED bootVars
    /\ UNCHANGED pruneVars
    /\ UNCHANGED lastOutcome

\* the 'error' event of the PUT request of an already rejected attempt
StaleReqError ==
    /\ UNCHANGED roundTrip
    /\ pc # "exited"
    /\ staleReqs > 0
    /\ \E err \in RequestErrors :
          /\ IsInsufficientStorage(err)
          /\ Exit(1, "nostorage")
    /\ UNCHANGED << options, watchdog >>
    /\ UNCHANGED jobVars
    /\ UNCHANGED bootVars
    /\ UNCHANGED pruneVars
    /\ UNCHANGED lastOutcome

\* the 'exit' event of the producer of an already settled attempt
\* (reject after resolve, or after an earlier reject, does nothing)
StaleProcExit ==
    /\ UNCHANGED roundTrip
    /\ pc # "exited"
    /\ \/ /\ staleProcs.rejected > 0
          /\ staleProcs' = [staleProcs EXCEPT !.rejected = @ - 1]
          /\ UNCHANGED lastOutcome
       \/ \E s \in staleProcs.resolved, ev \in ExitEvents :
             /\ staleProcs' = [staleProcs EXCEPT !.resolved = @ \ {s}]
             /\ IF ExitFails(s, ev)
                THEN lastOutcome' = [NoOutcome EXCEPT !.by = "lateexit",
                                                      !.status = ev.code,
                                                      !.result = "ignored",
                                                      !.proc = "exited"]
                ELSE UNCHANGED lastOutcome
    /\ UNCHANGED << options, watchdog, cur, retriesCount, att, staleReqs, attempts,
                    stageResult >>
    /\ UNCHANGED controlVars
    /\ UNCHANGED bootVars
    /\ UNCHANGED pruneVars

CleanupStatuses == {204, 401, 404, 500}

CleanupEscalatesCredentials(status) ==
    IF status = 401 THEN "exit" ELSE "continue"

\* try { yield dav.deleteFile(brokenFilePath) } catch (err) { ... }: 401 and
\* every other status but 404 are logged with console.warn, none is rethrown
CleanupFailure(status) ==
    CASE status = 401 -> "continue"
      [] status # 404 -> "continue"
      [] OTHER -> "continue"

\* dav.deleteFile(brokenFilePath) settles
CleanupReturns ==
    /\ UNCHANGED roundTrip
    /\ pc = "cleanup"
    /\ \E status \in CleanupStatuses :
          /\ CASE CleanupFailure(status) = "continue" ->
                     RetryOrGiveUp(staleReqs, staleProcs)
                [] CleanupFailure(status) = "exit" ->
                     /\ Exit(1, "credentials")
                     /\ UNCHANGED << cur, retriesCount, att, staleReqs, staleProcs,
                                     attempts, stageResult >>
          /\ lastOutcome' = [NoOutcome EXCEPT !.by = "cleanup", !.status = status]
    /\ UNCHANGED << options, watchdog >>
    /\ UNCHANGED bootVars
    /\ UNCHANGED pruneVars

\* the RETRY_DELAY timer fires: yield* backup(backupFn, retriesCount)
DelayElapsed ==
    /\ UNCHANGED roundTrip
    /\ pc = "delay"
    /\ pc' = "upload"
    /\ att' = NewAttempt(Stages[cur], attempts[Stages[cur]] + 1)
    /\ attempts' = [attempts EXCEPT ![Stages[cur]] = @ + 1]
    /\ UNCHANGED << options, watchdog, exitCode, exitReason, cur, retriesCount, staleReqs,
                    staleProcs, stageResult >>
    /\ UNCHANGED bootVars
    /\ UNCHANGED pruneVars
    /\ lastOutcome' = NoOutcome

\* the TIMEOUT timer fires
Watchdog ==
    /\ UNCHANGED roundTrip
    /\ watchdog = "armed"
    /\ pc # "exited"
    /\ Exit(1, "timeout")
    /\ UNCHANGED << options, watchdog >>
    /\ UNCHANGED jobVars
    /\ UNCHANGED bootVars
    /\ UNCHANGED pruneVars
    /\ UNCHANGED lastOutcome

Next ==
    \/ Start
    \/ ListReturns
    \/ MkdirReturns
    \/ PruneDeleteReturns
    \/ ProcExit
    \/ ProcError
    \/ Response
    \/ ReqError
    \/ StaleReqEnds
    \/ StaleReqError
    \/ StaleProcExit
    \/ CleanupReturns
    \/ DelayElapsed
    \/ Watchdog

Spec == Init /\ [][Next]_vars

\* The synchronous top of the script runs to its end, and a timer that is
\* armed in a live process fires: nothing else of the run is assumed to
\* happen (a listing, a delete or an upload may stay unanswered for ever).
\* Runs with fewer retries than the bound keep the liveness graph small.
FairInit == Init /\ options.retries < MaxRetries
FairSpec == FairInit /\ [][Next]_vars /\ WF_vars(Start) /\ WF_vars(Watchdog)

(* --------------------- filenames: generate and match ------------------ *)

\* run names (alphanumeric, as the option requires) and database names
Names == {<<"n", "1">>, <<"n", "1", "2">>, <<"n">>, <<"N", "1">>}
DbNames ==
    {<<"d">>, <<"d", "_", "1">>, <<"m", "o", "n", "g", "o", "-", "x">>,
     DateChars \o <<"_">> \o TimeChars \o SqlExt}
Moments ==
    [year : {1970, 2024}, month : {1, 12}, day : {9, 31}, hour : {0, 23},
     minute : {0, 59}, second : {7}, millisecond : {0, 45, 999}]

NamesInit ==
    /\ ControllerInit
    /\ PlainRemote(options)
    /\ PlainJobs(options)
    /\ remoteDirs = {PathOf(0), PathOf(1)}
    /\ remoteFiles[PathOf(1)] # <<>>
    /\ \E name \in Names, db \in DbNames, m \in Moments :
          roundTrip = [NoRoundTrip EXCEPT !.phase = "input", !.name = name, !.db = db,
                                         !.moment = m]

Named(kind, backupFilename) ==
    /\ roundTrip' = [roundTrip EXCEPT !.phase = "named", !.kind = kind,
                                      !.backupFilename = backupFilename]
    /\ UNCHANGED << options, watchdog, lastOutcome >>
    /\ UNCHANGED controlVars
    /\ UNCHANGED bootVars
    /\ UNCHANGED pruneVars
    /\ UNCHANGED jobVars

\* backupTar builds its filename
NameTar ==
    /\ roundTrip.phase = "input"
    /\ Named("tar", BackupTarFilename(roundTrip.name, roundTrip.moment))

\* backupMysql builds its filename
NameMysql ==
    /\ roundTrip.phase = "input"
    /\ Named("mysql",
             BackupMysqlFilename(roundTrip.name, roundTrip.db, roundTrip.moment))

\* backupMongo builds its filename
NameMongo ==
    /\ roundTrip.phase = "input"
    /\ Named("mongo",
             BackupMongoFilename(roundTrip.name, roundTrip.db, roundTrip.moment))

\* the regexp built for the run name `matcher` is applied to the filename
MatchName ==
    /\ roundTrip.phase = "named"
    /\ \E matcher \in Names :
          roundTrip' = [roundTrip EXCEPT !.phase = "matched", !.matcher = matcher,
                           !.groups = RegexpGroups(matcher, roundTrip.backupFilename)]
    /\ UNCHANGED << options, watchdog, lastOutcome >>
    /\ UNCHANGED controlVars
    /\ UNCHANGED bootVars
    /\ UNCHANGED pruneVars
    /\ UNCHANGED jobVars

NamesNext ==
    \/ NameTar
    \/ NameMysql
    \/ NameMongo
    \/ MatchName

NamesSpec == NamesInit /\ [][NamesNext]_vars

(* ------------------------------- claims ------------------------------- *)

ConfiguredStages == {Stages[n] : n \in {m \in 1..Len(Stages) : Configured(m)}}
SomeStageStarted == \E s \in StageSet : attempts[s] >= 1
NoStageStarted == \A s \in StageSet : attempts[s] = 0
AtLeastZero(n) == IF n > 0 THEN n ELSE 0
Entries == {davDirContents.entries[n] : n \in 1..Len(davDirContents.entries)}
DavDir == options.davDirSegments

\* C1 (as claimed): the run exits with code 0 only if every configured backup
\* stage succeeded within its retry budget; a stage that failed on all of its
\* attempts makes the exit code non-zero.
C1_ExitZeroOnlyIfAllSucceeded ==
    (pc = "exited" /\ exitCode = 0) => \A s \in ConfiguredStages : stageResult[s] = "ok"

\* C2: a stage that exhausts its retries does not short-circuit the others. The
\* step in which a stage gives up starts the first attempt of the next configured
\* stage (or, after the last one, ends the run through the normal completion of
\* the controller), and a run that completed has started every configured stage.
C2_NoShortCircuit ==
    /\ [][ \A n \in 1..Len(Stages) :
             (stageResult[Stages[n]] = "running" /\ stageResult'[Stages[n]] = "failed")
             => LET rest == {m \in (n + 1)..Len(Stages) : Configured(m)}
                IN  IF rest = {}
                    THEN pc' = "exited" /\ exitReason' = "done"
                    ELSE /\ pc' = "upload"
                         /\ \E m \in rest :
                               /\ \A o \in rest : m <= o
                               /\ stageResult'[Stages[m]] = "running"
                               /\ attempts'[Stages[m]] = 1 ]_vars
    /\ [](exitReason = "done" => \A s \in ConfiguredStages : attempts[s] >= 1)

\* a directory job failed on every one of its 2 or more attempts and the
\* document-database job is under way
C2_Witness ==
    /\ options.retries >= 1
    /\ stageResult["tar"] = "failed"
    /\ stageResult["mongo"] = "running"
    /\ pc = "upload"

\* C3 (as claimed): for every configured retry count, a job starts at most
\* retries + 1 upload attempts.
C3_AtMostRetriesPlusOne == \A s \in StageSet : attempts[s] <= options.retries + 1

\* C3 (amended): a job starts at most max(retries, 0) + 1 upload attempts (one
\* attempt is started even when retries is negative), exactly that many when every
\* attempt fails, and none after an attempt has succeeded.
C3_AttemptsBounded ==
    /\ [](\A s \in StageSet :
            /\ attempts[s] <= AtLeastZero(options.retries) + 1
            /\ stageResult[s] = "failed" => attempts[s] = AtLeastZero(options.retries) + 1
            /\ (stageResult[s] = "running" /\ pc = "upload")
                  => attempts[s] = retriesCount + 1)
    /\ [][ \A s \in StageSet :
             stageResult[s] \in {"ok", "failed"}
             => (attempts'[s] = attempts[s] /\ stageResult'[s] = stageResult[s]) ]_vars

\* a job gave up after retries + 1 >= 2 failed attempts, another succeeded at once
C3_Witness ==
    /\ options.retries >= 1
    /\ \E s \in StageSet : stageResult[s] = "failed" /\ attempts[s] = options.retries + 1
    /\ \E s \in StageSet : stageResult[s] = "ok" /\ attempts[s] = 1

\* C4: a failure that carries a filename issues, in the same step, one cleanup
\* delete of that filename under the remote directory; cleanup deletes are issued
\* for nothing else; the retry delay begins only when that delete has returned
\* (or after a failure without a filename), and no attempt starts while a cleanup
\* delete is outstanding.
C4_CleanupBeforeRetry ==
    /\ [](lastOutcome.result = "file"
            => /\ lastOutcome.cleanup = [dir |-> DavDir, base |-> lastOutcome.file]
               /\ pc \in {"cleanup", "exited"})
    /\ [](lastOutcome.cleanup # NoPath => lastOutcome.result = "file")
    /\ [](pc = "cleanup" => att.promise = "none")
    /\ [][ (pc' = "cleanup" /\ pc # "cleanup") => lastOutcome'.result = "file" ]_vars
    /\ [][ (pc' = "delay" /\ pc # "delay")
             => \/ pc = "cleanup"
                \/ pc = "upload" /\ lastOutcome'.result = "bare" ]_vars
    /\ [][ (pc = "cleanup" /\ pc' = "cleanup") => attempts' = attempts ]_vars
    /\ [][ \A s \in StageSet :
             (attempts[s] >= 1 /\ attempts'[s] > attempts[s]) => pc = "delay" ]_vars

\* the producer exited with a failing code and the cleanup delete of its file is
\* outstanding
C4_Witness ==
    /\ pc = "cleanup"
    /\ lastOutcome.by = "exit"
    /\ lastOutcome.result = "file"
    /\ lastOutcome.cleanup.base = lastOutcome.file

\* C5: an attempt succeeds only through a 'response' event with status 201; a
\* 'response' with any other status fails the attempt with the filename attached,
\* also when the producer has exited successfully; a job is marked succeeded only
\* in such a step.
C5_SuccessOnlyOnCreated ==
    /\ [](lastOutcome.result = "ok"
            => lastOutcome.by = "response" /\ lastOutcome.status = 201)
    /\ []((lastOutcome.by = "response" /\ lastOutcome.status # 201)
            => lastOutcome.result = "file")
    /\ [][ \A s \in StageSet :
             (stageResult[s] # "ok" /\ stageResult'[s] = "ok")
             => /\ lastOutcome'.result = "ok"
                /\ lastOutcome'.by = "response"
                /\ lastOutcome'.status = 201
                /\ lastOutcome'.file.kind = s ]_vars

\* the producer had exited without failing and the store answered 204
C5_Witness ==
    /\ lastOutcome.by = "response"
    /\ lastOutcome.status = 204
    /\ lastOutcome.proc = "exited"
    /\ lastOutcome.result = "file"

\* C6: a 507 answer to any upload, of the awaited attempt or of an earlier one
\* whose request is still open, ends the process with exit code 1, and nothing
\* is started afterwards.
C6_InsufficientStorageIsFatal ==
    /\ [](exitReason = "nostorage" => pc = "exited" /\ exitCode = 1)
    /\ [](lastOutcome.status = 507
            => /\ lastOutcome.result = "fatal"
               /\ lastOutcome.cleanup = NoPath
               /\ exitReason = "nostorage")
    /\ [][ exitReason' = "nostorage"
             => (attempts' = attempts /\ stageResult' = stageResult /\ pruned' = pruned) ]_vars
    /\ [][ pc = "exited" => pc' = "exited" /\ attempts' = attempts ]_vars

\* 507 arrived while a retry was still available
C6_Witness ==
    /\ exitReason = "nostorage"
    /\ lastOutcome.status = 507
    /\ retriesCount < options.retries
    /\ \E n \in 1..Len(Stages) : n > cur /\ Configured(n)

\* the basenames of the remote listings that follow the backup-filename grammar
\* for the run name of the configuration
WellFormedNames ==
    {TarName(d) : d \in {DateChars, DateChars2, DateChars3}}
        \cup {MysqlName(d) : d \in {DateChars, DateChars2, DateChars3}}

\* the entries the claim says are to be deleted
Obsolete ==
    {e \in Entries :
        /\ e.type = "file"
        /\ e.basename \in WellFormedNames
        /\ e.lastmod < Now - options.daysToKeep}

\* C7: with a positive finite window the retention deletes issued are those of
\* the files of the listing whose basename is a backup filename of this run name
\* and whose last-modified time is strictly before now - W, all of them once
\* pruning is over; with an unbounded or non-positive window none is issued.
C7_PruneExactlyObsolete ==
    IF options.daysToKeep > 0 /\ options.daysToKeep < Infinity
    THEN /\ pruned \subseteq {e.filename : e \in Obsolete}
         /\ SomeStageStarted => pruned = {e.filename : e \in Obsolete}
    ELSE pruned = {}

\* pruning is over, it deleted two files and kept seven, one of them a backup
\* last modified exactly at now - W
C7_Witness ==
    /\ SomeStageStarted
    /\ Cardinality(pruned) = 2
    /\ Len(davDirContents.entries) = 9
    /\ \E e \in Entries :
          /\ e.lastmod = Now - options.daysToKeep
          /\ e.basename \in WellFormedNames
          /\ e.filename \notin pruned

\* C8 (as claimed): a failed retention delete does not abort the run: the stages
\* still run and the exit code is not changed by it.
C8_RetentionDeleteBestEffort ==
    pruneFailed => ~(pc = "exited" /\ exitReason = "unhandled" /\ NoStageStarted)

BootstrapCompleted == pc = "prune" \/ SomeStageStarted

\* C9: the prefixes are listed in order of increasing depth, from the root to
\* the full path once bootstrap is over; createDirectory is issued for the
\* prefixes answered 404, none of which existed, and for no other; a deeper
\* prefix is listed only when the created one exists; after bootstrap every
\* prefix exists.
C9_BootstrapCreatesEveryPrefix ==
    /\ [](\A j \in 1..Len(probes) : probes[j].path = SubSeq(DavDir, 1, j - 1))
    /\ [](created = {probes[j].path : j \in {n \in 1..Len(probes) : probes[n].status = 404}})
    /\ [](\A j \in 1..(Len(probes) - 1) :
            probes[j].status \in {200, 404} /\ probes[j].path \in remoteDirs)
    /\ [](BootstrapCompleted
            => /\ Len(probes) = Len(DavDir) + 1
               /\ \A d \in 0..Len(DavDir) : SubSeq(DavDir, 1, d) \in remoteDirs)
    /\ [][ \A p \in created' \ created : p \notin remoteDirs ]_vars

\* the root existed, both directories below it were created, the jobs started
C9_Witness ==
    /\ Len(DavDir) = 2
    /\ created = {PathOf(1), PathOf(2)}
    /\ probes[1].status = 200
    /\ SomeStageStarted

\* C10: a listing answered 401 ends the process with exit code 1 in that step:
\* no createDirectory for that path, no retention delete, no upload; a listing
\* answered with a status other than 404 and 401 also ends the run with exit
\* code 1 before any stage.
C10_ListingFailureEndsRun ==
    /\ [](\A j \in 1..Len(probes) :
            probes[j].status \notin {0, 200, 404}
            => /\ j = Len(probes)
               /\ pc = "exited"
               /\ exitCode = 1
               /\ probes[j].path \notin created
               /\ pruned = {}
               /\ NoStageStarted)
    /\ [](exitReason = "credentials" <=> \E j \in 1..Len(probes) : probes[j].status = 401)
    /\ [][ pc = "exited" => UNCHANGED << created, pruned, attempts, remoteDirs >> ]_vars

\* the second listing was answered 401 after the root had been created
C10_Witness ==
    /\ Len(probes) = 2
    /\ probes[2].status = 401
    /\ created = {PathOf(0)}
    /\ exitCode = 1

\* a listing was answered 500
C10_WitnessOther ==
    /\ \E j \in 1..Len(probes) : probes[j].status = 500
    /\ exitReason = "unhandled"

\* the target of a stage is configured
HasTarget(s) ==
    CASE s = "tar" -> options.dirs # <<>>
      [] s = "mysql" -> options.mysqlDb # ""
      [] s = "mongo" -> options.mongoDb # ""
Finished(s) == stageResult[s] \in {"ok", "failed"}
NoRemoteOperation ==
    /\ probes = <<>>
    /\ created = {}
    /\ pruned = {}
    /\ NoStageStarted
    /\ lastOutcome = NoOutcome

\* C11: with no directories, no relational and no document database configured
\* the process exits with code 1 in its first step, and no listing, directory
\* creation, delete or upload is ever issued.
C11_NoTargetsExitsAtOnce ==
    /\ []((\A s \in StageSet : ~HasTarget(s))
            => /\ NoRemoteOperation
               /\ pc \in {"start", "exited"}
               /\ pc = "exited" => (exitCode = 1 /\ exitReason = "notargets"))
    /\ [](exitReason = "notargets" => \A s \in StageSet : ~HasTarget(s))

\* the run without targets has ended
C11_Witness ==
    /\ \A s \in StageSet : ~HasTarget(s)
    /\ pc = "exited"
    /\ exitCode = 1
    /\ watchdog = "armed"

\* C12: the stages run in the order bootstrap, prune, directories, relational,
\* document: a stage is started only if its target is configured and every
\* configured stage before it has finished; at most one stage is running; no
\* upload and no retention delete is issued before every prefix has been listed
\* and answered, and no upload while a retention delete is awaited.
C12_StagesInOrder ==
    /\ [](\A n \in 1..Len(Stages) :
            stageResult[Stages[n]] # "idle"
            => /\ HasTarget(Stages[n])
               /\ attempts[Stages[n]] >= 1
               /\ \A m \in 1..(n - 1) : HasTarget(Stages[m]) => Finished(Stages[m]))
    /\ [](\A s \in StageSet : attempts[s] >= 1 <=> stageResult[s] # "idle")
    /\ [](Cardinality({s \in StageSet : stageResult[s] = "running"}) <= 1)
    /\ []((SomeStageStarted \/ pruned # {})
            => /\ Len(probes) = Len(DavDir) + 1
               /\ \A j \in 1..Len(probes) : probes[j].status \in {200, 404}
               /\ pc \notin {"start", "list", "mkdir"})
    /\ [](pc = "prune" => NoStageStarted)
    /\ [](pc \in {"upload", "cleanup", "delay"}
            => /\ cur \in 1..Len(Stages)
               /\ stageResult[Stages[cur]] = "running")
    /\ [][ \A s \in StageSet : Finished(s) => stageResult'[s] = stageResult[s] ]_vars

\* the first two jobs have finished after a retry, the third is being uploaded
C12_Witness ==
    /\ \A s \in StageSet : HasTarget(s)
    /\ attempts["tar"] = 2
    /\ stageResult["tar"] = "failed"
    /\ stageResult["mysql"] = "ok"
    /\ stageResult["mongo"] = "running"
    /\ pruned # {}

\* C13: the watchdog is armed before any listing, delete or upload is issued;
\* it can fire in every stage of a live run, and when it fires the process
\* exits with code 1; hence every run ends, also one whose upload is never
\* answered.
C13_WatchdogEndsEveryRun ==
    /\ [](pc # "start" => watchdog = "armed")
    /\ [](watchdog = "unarmed" => NoRemoteOperation)
    /\ [](pc \in {"list", "mkdir", "prune", "upload", "cleanup", "delay"}
            => ENABLED Watchdog)
    /\ [](exitReason = "timeout" => exitCode = 1)
    /\ [][exitReason' = "timeout" /\ exitReason # "timeout"
            => pc # "exited" /\ pc' = "exited"]_vars
    /\ <>(pc = "exited")

\* the watchdog ended a run whose producer had exited with success and whose
\* upload request was never answered
C13_Witness ==
    /\ exitReason = "timeout"
    /\ exitCode = 1
    /\ att.promise = "pending"
    /\ att.proc = "exited"
    /\ att.req = "open"

\* C14: a failure that is retried within the budget is contained: a job is
\* failed only once more attempts than `retries` were made, an attempt that
\* succeeds after a retry makes the job succeeded, and when every configured
\* job has succeeded the run has exited with code 0.
C14_RetriedFailureLeavesNoTrace ==
    /\ [](\A s \in StageSet :
            stageResult[s] = "failed" => attempts[s] > options.retries)
    /\ [][\A s \in StageSet :
            (stageResult[s] = "running" /\ lastOutcome'.result = "ok"
               /\ lastOutcome'.file.kind = s)
            => stageResult'[s] = "ok"]_vars
    /\ []((ConfiguredStages # {} /\ \A s \in ConfiguredStages : stageResult[s] = "ok")
            => pc = "exited" /\ exitCode = 0 /\ exitReason = "done")

\* only the relational database is configured; its first attempt was rejected
\* while its request was open (the dump process failed), the second succeeded
C14_Witness ==
    /\ ConfiguredStages = {"mysql"}
    /\ options.retries >= 1
    /\ attempts["mysql"] = 2
    /\ stageResult["mysql"] = "ok"
    /\ staleReqs = 1
    /\ exitCode = 0

\* C15: whatever the cleanup delete answers (success, 404, 401 or another
\* status), the process is not terminated by it and the controller goes on as
\* after a successful delete: a retry when retriesCount < retries, else the job
\* is given up and the next stage starts.
C15_CleanupFailureContained ==
    [][(pc = "cleanup" /\ lastOutcome'.by = "cleanup")
        => IF retriesCount < options.retries
           THEN /\ pc' = "delay"
                /\ retriesCount' = retriesCount + 1
                /\ stageResult' = stageResult
                /\ exitCode' = exitCode
           ELSE /\ stageResult'[Stages[cur]] = "failed"
                /\ pc' \in {"upload", "exited"}
                /\ pc' = "exited" => exitReason' = "done"
                /\ pc' = "upload" => /\ cur' > cur
                                     /\ stageResult'[Stages[cur']] = "running"
                                     /\ attempts'[Stages[cur']] = 1]_vars

\* the cleanup delete was refused with 401 and the retry is being waited for
C15_Witness ==
    /\ lastOutcome.by = "cleanup"
    /\ lastOutcome.status = 401
    /\ pc = "delay"
    /\ retriesCount = 1

\* the cleanup delete failed with 500 on the last attempt and the next job runs
C15_WitnessGiveUp ==
    /\ lastOutcome.by = "cleanup"
    /\ lastOutcome.status = 500
    /\ pc = "upload"
    /\ stageResult["tar"] = "failed"

\* C16: every upload failure with a status other than 201 and 507, whether it
\* arrives by the 'response' or by the 'error' event, rejects the attempt with
\* the filename, so that the cleanup delete of that artifact is issued.
C16_UploadFailureCarriesFilename ==
    (lastOutcome.by \in {"response", "error"} /\ lastOutcome.status \notin {0, 201, 507})
        => /\ lastOutcome.result = "file"
           /\ lastOutcome.cleanup = [dir |-> DavDir, base |-> lastOutcome.file]
           /\ pc \in {"cleanup", "exited"}

\* the part of C16 that the code keeps: a failure reported by the 'response'
\* event carries the filename
C16_ResponseFailureCarriesFilename ==
    (lastOutcome.by = "response" /\ lastOutcome.status # 201)
        => /\ lastOutcome.result = "file"
           /\ lastOutcome.cleanup = [dir |-> DavDir, base |-> lastOutcome.file]

\* C19: a producer exit with a failing code (directories: above 1, databases:
\* non-zero) always fails its attempt with the filename, also when the 201
\* response of the upload was delivered before the exit event.
C19_FailingExitFailsAttempt ==
    lastOutcome.by \in {"exit", "lateexit"} => lastOutcome.result = "file"

\* C20: at most one producer and one upload request are in flight, and the
\* producer and the request of an abandoned attempt are finished before its
\* cleanup, its retry or the next stage begins.
C20_OneInFlight ==
    /\ staleReqs + (IF att.req = "open" THEN 1 ELSE 0) <= 1
    /\ staleProcs.rejected + Cardinality(staleProcs.resolved)
         + (IF att.proc = "running" THEN 1 ELSE 0) <= 1
    /\ pc \in {"cleanup", "delay"}
          => staleReqs = 0 /\ staleProcs.rejected = 0

\* C18: when the bootstrap loop is over and pruning is enabled, the listing
\* the pruner iterates is the successful listing of the full target directory;
\* it is never undefined nor the listing of a parent prefix, so no file outside
\* the target directory is deleted.
C18_PrunerGetsTargetListing ==
    /\ (BootstrapCompleted /\ ShouldPrune(options.daysToKeep))
          => /\ davDirContents.defined
             /\ \A e \in Entries : e.filename.dir = DavDir
             /\ probes[Len(probes)] = [path |-> DavDir, status |-> 200]
    /\ \A f \in pruned : f.dir = DavDir
    /\ ~(exitReason = "unhandled" /\ ~davDirContents.defined
           /\ Len(probes) = Len(DavDir) + 1 /\ probes[Len(probes)].status = 404)

\* the bootstrap created the target directory and the pruner deleted an old
\* backup of the parent directory
C18_ParentFilePruned ==
    /\ DavDir \in created
    /\ \E f \in pruned : f.dir # DavDir

RECURSIVE ParseInt(_)
\* the number a string of decimal digits denotes
ParseInt(s) ==
    IF s = <<>> THEN 0
    ELSE 10 * ParseInt(SubSeq(s, 1, Len(s) - 1))
           + (CHOOSE d \in 0..9 : DigitChars[d + 1] = s[Len(s)])

KindTag(kind) ==
    CASE kind = "tar" -> <<>>
      [] kind = "mysql" -> MysqlChars
      [] kind = "mongo" -> MongoChars

\* C17: for alphanumeric run names and any database name, the filename a
\* producer generates is accepted by the regexp built for the same run name,
\* whose groups give back the kind tag (none, mysql, mongo) and the date and
\* time that were formatted; the regexp built for another run name rejects it.
C17_FilenameRoundTrip ==
    roundTrip.phase = "matched"
    => LET g == roundTrip.groups
           m == roundTrip.moment
       IN  IF roundTrip.matcher = roundTrip.name
           THEN /\ g.matched
                /\ g.kind = KindTag(roundTrip.kind)
                /\ ParseInt(SubSeq(g.date, 1, 4)) = m.year
                /\ ParseInt(SubSeq(g.date, 6, 7)) = m.month
                /\ ParseInt(SubSeq(g.date, 9, 10)) = m.day
                /\ ParseInt(SubSeq(g.time, 1, 2)) = m.hour
                /\ ParseInt(SubSeq(g.time, 4, 5)) = m.minute
                /\ ParseInt(SubSeq(g.time, 7, 8)) = m.second
                /\ ParseInt(SubSeq(g.time, 10, 12)) = m.millisecond
           ELSE ~g.matched

\* a document dump of a database whose name holds an underscore, taken in
\* the ninth day of a month, was matched by the regexp of its own run name
C17_Witness ==
    /\ roundTrip.phase = "matched"
    /\ roundTrip.kind = "mongo"
    /\ roundTrip.db = <<"d", "_", "1">>
    /\ roundTrip.moment.day = 9
    /\ roundTrip.matcher = roundTrip.name
    /\ roundTrip.groups.matched
    /\ roundTrip.groups.kind = MongoChars

\* the filename of run n12 was rejected by the regexp of run n1
C17_WitnessOther ==
    /\ roundTrip.phase = "matched"
    /\ roundTrip.name = OtherName
    /\ roundTrip.matcher = RunName
    /\ ~roundTrip.groups.matched

====
